---------------------------- MODULE Spec2Model ----------------------------
(***************************************************************************)
(* A model of sysinfo_rs: the SMBIOS/DMI raw-table decoder, the            *)
(* virtualization detector, the disk-serial lookup through libudev, the    *)
(* process-wide uname cache and the get_machine_info pipeline.             *)
(*                                                                         *)
(* Text is a sequence of code points, a byte buffer a sequence of bytes.   *)
(* Rust indices are 0-based: At(buffer, i) is buffer[i].  The model is     *)
(* that of the x86_64 build (the cfg(target_arch = "x86_64") functions).   *)
(***************************************************************************)
EXTENDS Integers, Sequences, FiniteSets, TLC

VARIABLES
    pc,             \* position of the call under way
    section,        \* extract_string: the unformed section passed in
    index,          \* extract_string: the string index passed in
    result,         \* the value the call returned
    env,            \* what the host answers to the virtualization probes
    table,          \* the firmware table a decoder is called on
    file,           \* the dump at that table's path
    lookups,        \* get_machine_info: what each lookup of the call obtained
    hw,             \* the HardwareInfo under construction
    sw,             \* the SoftwareInfo under construction
    builder,        \* the MachineInfoBuilder
    disk_part_name, \* get_serial_number's argument
    handles,        \* udev handles acquired and released by the call
    UNAME_INFO,     \* the process-wide OnceLock<String>: its value
    once,           \* the state of UNAME_INFO's Once
    threads,        \* the threads calling get_cached_uname concurrently
    setter_calls,   \* the setters called on the MachineInfoBuilder, in order
    machine_info,   \* the MachineInfo given to serde_json::to_string
    serialized      \* the JSON document given to serde_json::from_str

vars == <<pc, section, index, result, env, table, file,
          lookups, hw, sw, builder, disk_part_name, handles, UNAME_INFO, once, threads,
          setter_calls, machine_info, serialized>>

\* the variables of the builder and serialization specifications
api_vars == <<setter_calls, machine_info, serialized>>

\* the variables of get_machine_info and of the uname cache, idle in the
\* specifications of the pure functions
machine_vars ==
    <<lookups, hw, sw, builder, disk_part_name, handles, UNAME_INFO, once, threads, api_vars>>

---------------------------------------------------------------------------
(* Result<T>: Ok(v), Err(e); a panic unwinds through every caller.         *)

Ok(v) == [kind |-> "Ok", val |-> v]

Err(e) == [kind |-> "Err", val |-> e]

Panic(m) == [kind |-> "Panic", val |-> m]

NoResult == [kind |-> "None", val |-> "none"]

---------------------------------------------------------------------------
(* Bytes and text.                                                         *)

NUL == 0

REPLACEMENT_CHARACTER == 65533

\* buffer[i], 0-based
At(buffer, i) == buffer[i + 1]

\* i is a valid 0-based index of buffer
InBounds(buffer, i) == i < Len(buffer)

\* &buffer[from..]; the caller has checked from <= Len(buffer)
SliceFrom(buffer, from) == SubSeq(buffer, from + 1, Len(buffer))

\* String::from_utf8_lossy on the model's bytes: ASCII is kept, and a byte
\* that can start no UTF-8 sequence (0x80..0xC1, 0xF5..0xFF) is replaced by
\* U+FFFD.  The byte alphabets below hold no multi-byte lead bytes.
from_utf8_lossy(bytes) ==
    [i \in 1..Len(bytes) |->
        IF bytes[i] < 128 THEN bytes[i] ELSE REPLACEMENT_CHARACTER]

\* slice.split(|&b| b == sep): the subslices between separators; an empty
\* slice gives one empty subslice, a trailing separator a last empty one.
RECURSIVE split(_, _)
split(s, sep) ==
    IF \A i \in 1..Len(s) : s[i] # sep
    THEN <<s>>
    ELSE LET p == CHOOSE i \in 1..Len(s) :
                      s[i] = sep /\ \A j \in 1..(i - 1) : s[j] # sep
         IN  <<SubSeq(s, 1, p - 1)>> \o split(SubSeq(s, p + 1, Len(s)), sep)

\* Iterator::nth(n), 0-based: Some(item) or None
nth(items, n) ==
    IF n < Len(items) THEN [some |-> TRUE, item |-> items[n + 1]]
    ELSE [some |-> FALSE, item |-> <<>>]

---------------------------------------------------------------------------
(* extract_string                                                          *)

extract_string_nth_index(unformed_section, string_index) ==
    IF string_index = 0
    THEN Ok(<<>>)
    ELSE LET seg == nth(split(unformed_section, NUL), string_index)
         IN  IF seg.some THEN Ok(from_utf8_lossy(seg.item))
             ELSE Err("String not found")

extract_string(unformed_section, string_index) ==
    IF string_index = 0
    THEN Ok(<<>>)
    ELSE LET seg == nth(split(unformed_section, NUL), string_index - 1)
         IN  IF seg.some THEN Ok(from_utf8_lossy(seg.item))
             ELSE Err("String not found")

---------------------------------------------------------------------------
(* Files and commands of the host.                                         *)

\* a path that can be read, with its bytes; or one that cannot
FileOk(bytes) == [ok |-> TRUE, bytes |-> bytes]

IoError == [ok |-> FALSE, bytes |-> <<>>]

INVALID_UTF8 == 255

\* fs::read_to_string: the text, or an error when the path cannot be read
\* or its bytes are not UTF-8 (only INVALID_UTF8 is, among the model's bytes)
read_to_string(f) ==
    IF ~f.ok THEN Err("IoError")
    ELSE IF \E i \in 1..Len(f.bytes) : f.bytes[i] >= 128 THEN Err("InvalidData")
    ELSE Ok(f.bytes)

\* str::contains(pattern)
RECURSIVE contains(_, _)
contains(text, pattern) ==
    IF Len(text) < Len(pattern) THEN FALSE
    ELSE IF SubSeq(text, 1, Len(pattern)) = pattern THEN TRUE
    ELSE contains(Tail(text), pattern)

TEXT_xen == <<120, 101, 110>>

TEXT_kvm == <<107, 118, 109>>

TEXT_hypervisor == <<104, 121, 112, 101, 114, 118, 105, 115, 111, 114>>

TEXT_running_in_container ==
    <<114, 117, 110, 110, 105, 110, 103, 32, 105, 110, 32,
      99, 111, 110, 116, 97, 105, 110, 101, 114>>

---------------------------------------------------------------------------
(* 32-bit registers, as <<high 16 bits, low 16 bits>>.                     *)

RECURSIVE BitAnd(_, _)
BitAnd(a, b) ==
    IF a = 0 \/ b = 0 THEN 0
    ELSE (a % 2) * (b % 2) + 2 * BitAnd(a \div 2, b \div 2)

U32And(x, y) == <<BitAnd(x[1], y[1]), BitAnd(x[2], y[2])>>

U32Zero == <<0, 0>>

\* 1 << 31
HYPERVISOR_BIT == <<\h8000, 0>>

SIG_VMWARE == << <<\h564D, \h7761>>, <<\h7265, \h564D>>, <<\h7761, \h7265>> >>

SIG_HYPERV == << <<\h4D69, \h6372>>, <<\h6F73, \h6F66>>, <<\h7420, \h4876>> >>

SIG_KVM == << <<\h4B56, \h4D4B>>, <<\h564D, \h4B56>>, <<\h4D4B, \h564D>> >>

SIG_XEN == << <<\h5865, \h6E56>>, <<\h4D4D, \h5865>>, <<\h6E56, \h4D4D>> >>

---------------------------------------------------------------------------
(* The virtualization detector.                                            *)

\* get_hypervisor_name: Some(name) or None, from CPUID leaf 0x40000000
get_hypervisor_name(e) ==
    LET name == e.cpuid_40000000
    IN  CASE name = SIG_VMWARE -> [some |-> TRUE, item |-> "VMware"]
          [] name = SIG_HYPERV -> [some |-> TRUE, item |-> "Microsoft Hyper-V"]
          [] name = SIG_KVM    -> [some |-> TRUE, item |-> "KVM"]
          [] name = SIG_XEN    -> [some |-> TRUE, item |-> "Xen"]
          [] OTHER             -> [some |-> FALSE, item |-> ""]

check_sys_hypervisor_error_is_true(e) ==
    LET content == read_to_string(e.sys_hypervisor_type)
    IN  IF content.kind = "Ok"
        THEN contains(content.val, TEXT_xen) \/ contains(content.val, TEXT_kvm)
        ELSE TRUE

check_sys_hypervisor(e) ==
    LET content == read_to_string(e.sys_hypervisor_type)
    IN  IF content.kind = "Ok"
        THEN contains(content.val, TEXT_xen) \/ contains(content.val, TEXT_kvm)
        ELSE FALSE

check_dmesg_hypervisor(e) ==
    IF e.dmesg.ok
    THEN contains(from_utf8_lossy(e.dmesg.bytes), TEXT_hypervisor)
    ELSE FALSE

is_hypervisor_present(e) ==
    LET is_vm == U32And(e.cpuid_1_ecx, HYPERVISOR_BIT) # U32Zero
        hypervisor_name == get_hypervisor_name(e)
        sys_hypervisor == check_sys_hypervisor(e)
        dmesg_hypervisor == check_dmesg_hypervisor(e)
    IN  is_vm \/ hypervisor_name.some \/ sys_hypervisor \/ dmesg_hypervisor

is_running_in_docker(e) ==
    LET dockerenv == e.dockerenv.ok
        dockerinit == e.dockerinit.ok
    IN  dockerenv \/ dockerinit

is_systemd_running_in_container(e) ==
    IF e.systemctl.ok
    THEN contains(from_utf8_lossy(e.systemctl.bytes), TEXT_running_in_container)
    ELSE FALSE

determine_virtual_machine_status_without_docker(e) ==
    LET is_hypervisor == is_hypervisor_present(e)
        is_systemd_container == is_systemd_running_in_container(e)
    IN  is_hypervisor \/ is_systemd_container

determine_virtual_machine_status(e) ==
    LET is_hypervisor == is_hypervisor_present(e)
        is_docker == is_running_in_docker(e)
        is_systemd_container == is_systemd_running_in_container(e)
    IN  is_hypervisor \/ is_docker \/ is_systemd_container

---------------------------------------------------------------------------
(* The SMBIOS table decoders.                                              *)

BiosInfoDefault ==
    [vendor |-> <<>>, bios_version |-> <<>>, bios_release_date |-> <<>>,
     is_virtual_machine |-> FALSE,
     system_bios_major_release |-> <<>>, system_bios_minor_release |-> <<>>]

SystemInfoDefault ==
    [manufacturer |-> <<>>, product_name |-> <<>>, serial_number |-> <<>>, uuid |-> <<>>]

EnclosureInfoDefault ==
    [manufacturer |-> <<>>, enclosure_type |-> <<>>, version |-> <<>>,
     serial_number |-> <<>>, asset_tag_number |-> <<>>]

\* u8::to_string: decimal digits, no padding
u8_to_string(b) ==
    IF b < 10 THEN <<48 + b>>
    ELSE IF b < 100 THEN <<48 + (b \div 10), 48 + (b % 10)>>
    ELSE <<48 + (b \div 100), 48 + ((b \div 10) % 10), 48 + (b % 10)>>

HexDigit(d) == IF d < 10 THEN 48 + d ELSE 87 + d

\* format!("{:02x}", b)
hex02(b) == <<HexDigit(b \div 16), HexDigit(b % 16)>>

\* a rendering in the SMBIOS wire order, the first three groups byte-swapped
format_uuid_mixed_endian(buffer) ==
    LET h(i) == hex02(At(buffer, i))
        dash == <<45>>
    IN  h(11) \o h(10) \o h(9) \o h(8) \o dash \o h(13) \o h(12) \o dash
        \o h(15) \o h(14) \o dash \o h(16) \o h(17) \o dash
        \o h(18) \o h(19) \o h(20) \o h(21) \o h(22) \o h(23)

\* the format! of read_system_info on bytes 0x08..0x17; the caller has
\* checked that they are in bounds
format_uuid(buffer) ==
    LET h(i) == hex02(At(buffer, i))
        dash == <<45>>
    IN  h(8) \o h(9) \o h(10) \o h(11) \o dash \o h(12) \o h(13) \o dash
        \o h(14) \o h(15) \o dash \o h(16) \o h(17) \o dash
        \o h(18) \o h(19) \o h(20) \o h(21) \o h(22) \o h(23)

\* extract_string(unformed, buffer[o])? for each offset o in turn: the first
\* out-of-range offset panics, the first failed extraction returns its error
RECURSIVE extract_fields(_, _, _)
extract_fields(buffer, unformed, offsets) ==
    IF offsets = <<>> THEN Ok(<<>>)
    ELSE IF ~InBounds(buffer, Head(offsets)) THEN Panic("index out of bounds")
    ELSE LET one == extract_string(unformed, At(buffer, Head(offsets)))
         IN  IF one.kind # "Ok" THEN one
             ELSE LET rest == extract_fields(buffer, unformed, Tail(offsets))
                  IN  IF rest.kind # "Ok" THEN rest
                      ELSE Ok(<<one.val>> \o rest.val)

\* the first 0-based index among `offsets` (in evaluation order) that is out
\* of range, if any
AllInBounds(buffer, offsets) == \A k \in 1..Len(offsets) : InBounds(buffer, offsets[k])

read_bios_info_flag_only(f, e) ==
    IF ~f.ok THEN Err("IoError")
    ELSE LET buffer == f.bytes
         IN  IF ~InBounds(buffer, 1) THEN Panic("index out of bounds")
             ELSE IF At(buffer, 1) > Len(buffer) THEN Panic("range start index out of range")
             ELSE LET strings == extract_fields(buffer, SliceFrom(buffer, At(buffer, 1)), <<4, 5, 8>>)
                  IN  IF strings.kind # "Ok" THEN strings
                      ELSE IF ~AllInBounds(buffer, <<19, 20, 21>>) THEN Panic("index out of bounds")
                      ELSE Ok([vendor |-> strings.val[1],
                               bios_version |-> strings.val[2],
                               bios_release_date |-> strings.val[3],
                               is_virtual_machine |-> (BitAnd(At(buffer, 19), 8) \div 8) = 1,
                               system_bios_major_release |-> u8_to_string(At(buffer, 20)),
                               system_bios_minor_release |-> u8_to_string(At(buffer, 21))])

\* a decoder that takes the string table at the fixed offset 0x12
read_bios_info_table_at_0x12(f, e) ==
    IF ~f.ok THEN Err("IoError")
    ELSE LET buffer == f.bytes
         IN  IF 18 > Len(buffer) THEN Panic("range start index out of range")
             ELSE LET strings == extract_fields(buffer, SliceFrom(buffer, 18), <<4, 5, 8>>)
                  IN  IF strings.kind # "Ok" THEN strings
                      ELSE IF ~AllInBounds(buffer, <<19, 20, 21>>) THEN Panic("index out of bounds")
                      ELSE Ok([vendor |-> strings.val[1],
                               bios_version |-> strings.val[2],
                               bios_release_date |-> strings.val[3],
                               is_virtual_machine |->
                                   \/ (BitAnd(At(buffer, 19), 8) \div 8) = 1
                                   \/ determine_virtual_machine_status(e),
                               system_bios_major_release |-> u8_to_string(At(buffer, 20)),
                               system_bios_minor_release |-> u8_to_string(At(buffer, 21))])

read_bios_info(f, e) ==
    IF ~f.ok THEN Err("IoError")
    ELSE LET buffer == f.bytes
         IN  IF ~InBounds(buffer, 1) THEN Panic("index out of bounds")
             ELSE LET length == At(buffer, 1)
                  IN  IF length > Len(buffer) THEN Panic("range start index out of range")
                      ELSE LET unformatted_section == SliceFrom(buffer, length)
                               strings == extract_fields(buffer, unformatted_section, <<4, 5, 8>>)
                           IN  IF strings.kind # "Ok" THEN strings
                               ELSE IF ~AllInBounds(buffer, <<19, 20, 21>>)
                                    THEN Panic("index out of bounds")
                               ELSE Ok([vendor |-> strings.val[1],
                                        bios_version |-> strings.val[2],
                                        bios_release_date |-> strings.val[3],
                                        is_virtual_machine |->
                                            \/ (BitAnd(At(buffer, 19), 8) \div 8) = 1
                                            \/ determine_virtual_machine_status(e),
                                        system_bios_major_release |-> u8_to_string(At(buffer, 20)),
                                        system_bios_minor_release |-> u8_to_string(At(buffer, 21))])

read_system_info(f) ==
    IF ~f.ok THEN Err("IoError")
    ELSE LET buffer == f.bytes
         IN  IF ~InBounds(buffer, 1) THEN Panic("index out of bounds")
             ELSE LET length == At(buffer, 1)
                  IN  IF length > Len(buffer) THEN Panic("range start index out of range")
                      ELSE LET unformed_section == SliceFrom(buffer, length)
                               strings == extract_fields(buffer, unformed_section, <<4, 5, 7>>)
                           IN  IF strings.kind # "Ok" THEN strings
                               ELSE IF ~AllInBounds(buffer, <<8, 9, 10, 11, 12, 13, 14, 15,
                                                              16, 17, 18, 19, 20, 21, 22, 23>>)
                                    THEN Panic("index out of bounds")
                               ELSE Ok([manufacturer |-> strings.val[1],
                                        product_name |-> strings.val[2],
                                        serial_number |-> strings.val[3],
                                        uuid |-> format_uuid(buffer)])

read_enclosure_info(f) ==
    IF ~f.ok THEN Err("IoError")
    ELSE LET buffer == f.bytes
         IN  IF ~InBounds(buffer, 1) THEN Panic("index out of bounds")
             ELSE LET length == At(buffer, 1)
                  IN  IF length > Len(buffer) THEN Panic("range start index out of range")
                      ELSE LET unformed_section == SliceFrom(buffer, length)
                               strings == extract_fields(buffer, unformed_section, <<4, 5, 6, 7, 8>>)
                           IN  IF strings.kind # "Ok" THEN strings
                               ELSE Ok([manufacturer |-> strings.val[1],
                                        enclosure_type |-> strings.val[2],
                                        version |-> strings.val[3],
                                        serial_number |-> strings.val[4],
                                        asset_tag_number |-> strings.val[5]])

---------------------------------------------------------------------------
(* Option<T>                                                               *)

None == [some |-> FALSE, item |-> <<>>]

Some(v) == [some |-> TRUE, item |-> v]

\* Result::unwrap_or_default / unwrap_or(default): a panic is no Result and
\* never reaches it
unwrap_or(r, default) == IF r.kind = "Ok" THEN r.val ELSE default

---------------------------------------------------------------------------
(* get_root_device: the device mounted on / in /proc/mounts                *)

\* BufRead::lines: the text between newlines, without a trailing "\r"; no
\* last empty line after a final newline.  A line that is not UTF-8 is an Err.
lines(bytes) ==
    LET parts == split(bytes, 10)
        kept == IF parts[Len(parts)] = <<>> THEN SubSeq(parts, 1, Len(parts) - 1) ELSE parts
        chomp(l) == IF l # <<>> /\ l[Len(l)] = 13 THEN SubSeq(l, 1, Len(l) - 1) ELSE l
    IN  [k \in 1..Len(kept) |->
            IF \E i \in 1..Len(kept[k]) : kept[k][i] >= 128
            THEN Err("InvalidData") ELSE Ok(chomp(kept[k]))]

IsWhitespace(c) == c \in {9, 10, 11, 12, 13, 32}

\* str::split_whitespace: the maximal runs of non-whitespace
RECURSIVE split_whitespace(_)
split_whitespace(text) ==
    IF text = <<>> THEN <<>>
    ELSE IF IsWhitespace(Head(text)) THEN split_whitespace(Tail(text))
    ELSE LET stops == {i \in 1..Len(text) : IsWhitespace(text[i])}
             n == IF stops = {} THEN Len(text)
                  ELSE (CHOOSE i \in stops : \A j \in stops : i <= j) - 1
         IN  <<SubSeq(text, 1, n)>> \o split_whitespace(SubSeq(text, n + 1, Len(text)))

TEXT_dev_prefix == <<47, 100, 101, 118, 47>>

TEXT_root == <<47>>

\* device.strip_prefix("/dev/").unwrap_or(device)
strip_dev_prefix(device) ==
    IF Len(device) >= Len(TEXT_dev_prefix)
       /\ SubSeq(device, 1, Len(TEXT_dev_prefix)) = TEXT_dev_prefix
    THEN SubSeq(device, Len(TEXT_dev_prefix) + 1, Len(device))
    ELSE device

\* the closure of find_map on one line
root_device_of_line(line) ==
    IF line.kind # "Ok" THEN None
    ELSE LET fields == split_whitespace(line.val)
         IN  IF Len(fields) >= 2 /\ fields[2] = TEXT_root
             THEN Some(strip_dev_prefix(fields[1]))
             ELSE None

RECURSIVE find_map_root_device(_)
find_map_root_device(ls) ==
    IF ls = <<>> THEN None
    ELSE IF root_device_of_line(Head(ls)).some THEN root_device_of_line(Head(ls))
    ELSE find_map_root_device(Tail(ls))

get_root_device(mounts) ==
    IF ~mounts.ok THEN Err("IoError")
    ELSE LET found == find_map_root_device(lines(mounts.bytes))
         IN  IF found.some THEN Ok(found.item)
             ELSE Err("Root file system device not found")

---------------------------------------------------------------------------
(* get_mac_addresses                                                       *)

\* MacAddr's Display: six "{:02x}" joined by ":"
format_mac(mac) ==
    hex02(mac[1]) \o <<58>> \o hex02(mac[2]) \o <<58>> \o hex02(mac[3]) \o <<58>>
    \o hex02(mac[4]) \o <<58>> \o hex02(mac[5]) \o <<58>> \o hex02(mac[6])

\* [String]::join(sep)
RECURSIVE join(_, _)
join(items, sep) ==
    IF items = <<>> THEN <<>>
    ELSE IF Len(items) = 1 THEN items[1]
    ELSE items[1] \o sep \o join(Tail(items), sep)

RECURSIVE macs_of(_)
macs_of(interfaces) ==
    IF interfaces = <<>> THEN <<>>
    ELSE (IF Head(interfaces).some THEN <<format_mac(Head(interfaces).item)>> ELSE <<>>)
         \o macs_of(Tail(interfaces))

\* interfaces: for each interface of datalink::interfaces(), its Option<MacAddr>
get_mac_addresses(interfaces) == Ok(join(macs_of(interfaces), <<44, 32>>))

---------------------------------------------------------------------------
(* SoftwareInfo: /etc/os-release and the cached uname                      *)

get_os_release(f) ==
    LET text == read_to_string(f)
    IN  IF text.kind = "Ok" THEN text ELSE Err("Failed to read /etc/os-release")

\* std::str::from_utf8(field).context("Invalid UTF-8")
convert_field(field) ==
    IF \E i \in 1..Len(field) : field[i] >= 128 THEN Err("Invalid UTF-8") ELSE Ok(field)

\* a JSON string: the quote and the backslash escaped (the fields of the
\* model hold no control characters)
RECURSIVE json_escape(_)
json_escape(text) ==
    IF text = <<>> THEN <<>>
    ELSE (IF Head(text) \in {34, 92} THEN <<92, Head(text)>> ELSE <<Head(text)>>)
         \o json_escape(Tail(text))

json_string(text) == <<34>> \o json_escape(text) \o <<34>>

\* the keys of get_uname, in the order serde_json's Map (a BTreeMap) keeps:
\* domainname, machine, nodename, release, sysname, version
UNAME_KEYS ==
    << [field |-> "domainname", key |-> <<100, 111, 109, 97, 105, 110, 110, 97, 109, 101>>],
       [field |-> "machine",    key |-> <<109, 97, 99, 104, 105, 110, 101>>],
       [field |-> "nodename",   key |-> <<110, 111, 100, 101, 110, 97, 109, 101>>],
       [field |-> "release",    key |-> <<114, 101, 108, 101, 97, 115, 101>>],
       [field |-> "sysname",    key |-> <<115, 121, 115, 110, 97, 109, 101>>],
       [field |-> "version",    key |-> <<118, 101, 114, 115, 105, 111, 110>>] >>

get_uname(uname) ==
    IF \E k \in 1..Len(UNAME_KEYS) : convert_field(uname[UNAME_KEYS[k].field]).kind # "Ok"
    THEN Err("Invalid UTF-8")
    ELSE Ok(<<123>>
            \o join([k \in 1..Len(UNAME_KEYS) |->
                        json_string(UNAME_KEYS[k].key) \o <<58>>
                        \o json_string(uname[UNAME_KEYS[k].field])], <<44>>)
            \o <<125>>)

---------------------------------------------------------------------------
(* MachineInfoBuilder                                                      *)

MachineInfoBuilderDefault == [hardware |-> None, software |-> None, extra |-> None]

build(b) ==
    IF ~b.hardware.some THEN Err("Hardware info is required")
    ELSE IF ~b.software.some THEN Err("Software info is required")
    ELSE Ok([hardware |-> b.hardware.item, software |-> b.software.item, extra |-> b.extra])

---------------------------------------------------------------------------
(* get_machine_info: the state a call starts from.                         *)

HardwareInfoInit ==
    [cpu_is_virtual |-> FALSE, disk_serial_number |-> <<>>, mac_addresses |-> <<>>,
     bios_info |-> BiosInfoDefault, system_info |-> SystemInfoDefault,
     enclosure_info |-> EnclosureInfoDefault, extra |-> None]

SoftwareInfoInit == [os_release |-> <<>>, uname |-> <<>>, extra |-> None]

NoLookups == [x \in {} |-> IoError]

NoHandles == [h \in {"udev", "dev"} |-> [acquired |-> 0, released |-> 0]]

CallStart ==
    /\ lookups = NoLookups
    /\ hw = HardwareInfoInit
    /\ sw = SoftwareInfoInit
    /\ builder = MachineInfoBuilderDefault
    /\ disk_part_name = <<>>
    /\ handles = NoHandles
    /\ setter_calls = <<>>
    /\ machine_info = None
    /\ serialized = None

NoThreads == [t \in {} |-> [pc |-> "idle", val |-> <<>>]]

MachineIdle ==
    /\ CallStart
    /\ UNAME_INFO = None
    /\ once = "incomplete"
    /\ threads = NoThreads

---------------------------------------------------------------------------
(* Hosts of the detector specification.                                    *)

NoEnv == [none |-> TRUE]

EcxValues == {U32Zero, HYPERVISOR_BIT, <<\h7FFF, \hFFFF>>, <<\hFFFF, \hFFFF>>}

Signatures ==
    {SIG_VMWARE, SIG_HYPERV, SIG_KVM, SIG_XEN, <<U32Zero, U32Zero, U32Zero>>,
     <<SIG_VMWARE[1], SIG_VMWARE[2], U32Zero>>}

SysHypervisorFiles ==
    {IoError, FileOk(<<>>), FileOk(TEXT_xen), FileOk(TEXT_kvm \o <<10>>),
     FileOk(<<110, 111, 110, 101>>), FileOk(<<88, 101, 110>>),
     FileOk(<<INVALID_UTF8>> \o TEXT_xen)}

DmesgOutputs ==
    {IoError, FileOk(<<>>), FileOk(<<120>> \o TEXT_hypervisor \o <<10>>),
     FileOk(<<INVALID_UTF8>> \o TEXT_hypervisor), FileOk(SubSeq(TEXT_hypervisor, 1, 9))}

Sentinels == {IoError, FileOk(<<>>)}

SystemctlOutputs ==
    {IoError, FileOk(<<>>), FileOk(SubSeq(TEXT_running_in_container, 1, 7) \o <<10>>),
     FileOk(TEXT_running_in_container \o <<10>>),
     FileOk(<<INVALID_UTF8, 32>> \o TEXT_running_in_container)}

Envs ==
    [cpuid_1_ecx : EcxValues, cpuid_40000000 : Signatures,
     sys_hypervisor_type : SysHypervisorFiles, dmesg : DmesgOutputs,
     dockerenv : Sentinels, dockerinit : Sentinels, systemctl : SystemctlOutputs]

InitDetect ==
    /\ pc = "detect_ready"
    /\ env \in Envs
    /\ section = <<>>
    /\ index = 0
    /\ result = NoResult
    /\ table = "none"
    /\ file = IoError
    /\ MachineIdle

DetermineVirtualMachineStatus ==
    /\ pc = "detect_ready"
    /\ result' = determine_virtual_machine_status(env)
    /\ pc' = "detect_done"
    /\ UNCHANGED <<section, index, env, table, file, machine_vars>>

NextDetect == DetermineVirtualMachineStatus

SpecDetect == InitDetect /\ [][NextDetect]_vars

---------------------------------------------------------------------------
(* Table dumps of the decoder specification.                               *)

\* length of the formatted section of the generated dumps
FormattedLen == 24

MaxStringIndex == 2

\* a dump: a formatted section of FormattedLen bytes, zero but for `fields`
\* (0-based offset :> byte), followed by the string table
MkTable(fields, strtab) ==
    [i \in 1..FormattedLen |-> IF (i - 1) \in DOMAIN fields THEN fields[i - 1] ELSE 0]
        \o strtab

Prefix(buffer, n) == SubSeq(buffer, 1, IF n < Len(buffer) THEN n ELSE Len(buffer))

LengthBytes == {18, FormattedLen, FormattedLen + 2, 255}

StringIndexes == 0..MaxStringIndex

StringTables == {<<>>, <<65, NUL, NUL>>, <<65, NUL, 66, NUL, NUL>>, <<INVALID_UTF8, 66, NUL, NUL>>}

FlagBytes == {0, 8, 247}

ReleaseBytes == {<<0, 7>>, <<255, 10>>}

UuidBytes ==
    {[i \in 1..16 |-> i],
     <<171, 205, 239, 0, 9, 10, 15, 16, 255, 128, 127, 1, 35, 69, 103, 137>>}

UuidFields(u) == [o \in 8..23 |-> u[o - 7]]

FullTables(t) ==
    CASE t = "bios" ->
            {MkTable((1 :> len) @@ (4 :> a) @@ (5 :> b) @@ (8 :> c) @@ (19 :> fl)
                     @@ (20 :> rel[1]) @@ (21 :> rel[2]), st) :
                len \in LengthBytes, a \in StringIndexes, b \in StringIndexes,
                c \in StringIndexes, fl \in FlagBytes, rel \in ReleaseBytes,
                st \in StringTables}
      [] t = "system" ->
            {MkTable((1 :> len) @@ (4 :> a) @@ (5 :> b) @@ (7 :> c) @@ UuidFields(u), st) :
                len \in LengthBytes, a \in StringIndexes, b \in StringIndexes,
                c \in StringIndexes, u \in UuidBytes, st \in StringTables}
      [] t = "enclosure" ->
            {MkTable((1 :> len) @@ (4 :> a) @@ (5 :> b) @@ (6 :> c) @@ (7 :> d) @@ (8 :> g), st) :
                len \in LengthBytes, a \in StringIndexes, b \in StringIndexes,
                c \in StringIndexes, d \in StringIndexes, g \in StringIndexes,
                st \in StringTables}

\* where the dumps are cut: 64 is beyond every dump and leaves it whole
PrefixLens(t) ==
    CASE t = "bios" -> {0, 1, 2, 5, 9, 19, 21, 22, 64}
      [] t = "system" -> {0, 1, 2, 5, 8, 23, 24, 64}
      [] t = "enclosure" -> {0, 1, 2, 4, 8, 9, 64}

\* "Vendor", "Ver1" and the string table b"Vendor\0Ver1\0\0"
TEXT_Vendor == <<86, 101, 110, 100, 111, 114>>

TEXT_Ver1 == <<86, 101, 114, 49>>

VendorTable == TEXT_Vendor \o <<NUL>> \o TEXT_Ver1 \o <<NUL, NUL>>

\* a dump whose string table follows a formatted section of n bytes
MkTableOf(n, fields, strtab) ==
    [i \in 1..n |-> IF (i - 1) \in DOMAIN fields THEN fields[i - 1] ELSE 0] \o strtab

\* BIOS dumps that carry the string table "Vendor", "Ver1" with vendor
\* index 1 and version index 2: the table begins at offset 0x12, 0x14, 0x16
\* or 0x18, the length byte is 0x12 or that offset, byte 0x13 (where the
\* formatted section holds it) has bit 3 set or clear, and the release-date
\* index names no string, the last string, or none that exists
VendorDumps ==
    {MkTableOf(n, (1 :> len) @@ (4 :> 1) @@ (5 :> 2) @@ (8 :> c) @@ (19 :> fl), VendorTable) :
        n \in {18, 20, 22, 24}, len \in {18, 20, 22, 24}, c \in {0, 4, 5}, fl \in {0, 8}}

\* what a table path can hold: nothing readable, or a whole or cut dump
TableFiles(t) ==
    {IoError} \cup {FileOk(Prefix(full, n)) : full \in FullTables(t), n \in PrefixLens(t)}
        \cup (IF t = "bios" THEN {FileOk(d) : d \in VendorDumps} ELSE {})

Tables == {"bios", "system", "enclosure"}

QuietEnv ==
    [cpuid_1_ecx |-> U32Zero, cpuid_40000000 |-> <<U32Zero, U32Zero, U32Zero>>,
     sys_hypervisor_type |-> IoError, dmesg |-> FileOk(<<>>),
     dockerenv |-> IoError, dockerinit |-> IoError, systemctl |-> IoError]

\* hosts for the decoders: no signal, a docker sentinel, the CPUID bit
DecodeEnvs ==
    {QuietEnv,
     [QuietEnv EXCEPT !.dockerenv = FileOk(<<>>)],
     [QuietEnv EXCEPT !.cpuid_1_ecx = HYPERVISOR_BIT]}

InitDecode ==
    /\ pc = "decode_ready"
    /\ table \in Tables
    /\ file \in TableFiles(table)
    /\ env \in (IF table = "bios" THEN DecodeEnvs ELSE {QuietEnv})
    /\ section = <<>>
    /\ index = 0
    /\ result = NoResult
    /\ MachineIdle

ReadBiosInfo ==
    /\ pc = "decode_ready"
    /\ table = "bios"
    /\ result' = read_bios_info(file, env)
    /\ pc' = "decode_done"
    /\ UNCHANGED <<section, index, env, table, file, machine_vars>>

ReadSystemInfo ==
    /\ pc = "decode_ready"
    /\ table = "system"
    /\ result' = read_system_info(file)
    /\ pc' = "decode_done"
    /\ UNCHANGED <<section, index, env, table, file, machine_vars>>

ReadEnclosureInfo ==
    /\ pc = "decode_ready"
    /\ table = "enclosure"
    /\ result' = read_enclosure_info(file)
    /\ pc' = "decode_done"
    /\ UNCHANGED <<section, index, env, table, file, machine_vars>>

NextDecode == ReadBiosInfo \/ ReadSystemInfo \/ ReadEnclosureInfo

SpecDecode == InitDecode /\ [][NextDecode]_vars

---------------------------------------------------------------------------
(* What the host answers to the lookups of get_machine_info.               *)

MountsFiles ==
    {IoError,
     FileOk(<<>>),
     \* "/dev/sda1 / ext4 rw 0 0\n"
     FileOk(<<47, 100, 101, 118, 47, 115, 100, 97, 49, 32, 47, 32, 101, 120, 116, 52,
              32, 114, 119, 32, 48, 32, 48, 10>>),
     \* "proc /proc proc rw\n"
     FileOk(<<112, 114, 111, 99, 32, 47, 112, 114, 111, 99, 32, 112, 114, 111, 99,
              32, 114, 119, 10>>),
     \* "\xff / x\n/dev/vda / ext4": the first line is not UTF-8
     FileOk(<<INVALID_UTF8, 32, 47, 32, 120, 10, 47, 100, 101, 118, 47, 118, 100, 97,
              32, 47, 32, 101, 120, 116, 52>>),
     \* "proc /proc proc\nsda1\t/ ext4\r\n"
     FileOk(<<112, 114, 111, 99, 32, 47, 112, 114, 111, 99, 32, 112, 114, 111, 99, 10,
              115, 100, 97, 49, 9, 47, 32, 101, 120, 116, 52, 13, 10>>),
     \* "/dev/s\0a /\n": a device name CString::new rejects
     FileOk(<<47, 100, 101, 118, 47, 115, NUL, 97, 32, 47, 10>>)}

\* a pointer returned by libudev
Pointers == {"null", "valid"}

\* the ID_SERIAL property: absent, or its bytes
SerialProperties == {None, Some(<<83, 49>>), Some(<<83, INVALID_UTF8>>)}

InterfaceLists ==
    {<<>>, <<None>>,
     <<None, Some(<<0, 26, 43, 60, 77, 94>>)>>,
     <<Some(<<0, 26, 43, 60, 77, 94>>), Some(<<255, 238, 221, 204, 187, 170>>)>>}

\* "ID=arch\n"
OsReleaseFiles ==
    {IoError, FileOk(<<73, 68, 61, 97, 114, 99, 104, 10>>), FileOk(<<73, 68, 61, INVALID_UTF8>>)}

UnameLinux ==
    [sysname |-> <<76, 105, 110, 117, 120>>, nodename |-> <<104, 111, 115, 116>>,
     release |-> <<54, 46, 49>>, version |-> <<35, 49>>,
     machine |-> <<120, 56, 54, 95, 54, 52>>, domainname |-> <<40, 110, 111, 110, 101, 41>>]

Unames ==
    {UnameLinux,
     [UnameLinux EXCEPT !.nodename = <<97, 34, 98>>],
     [UnameLinux EXCEPT !.nodename = <<104, INVALID_UTF8>>]}

\* a whole dump of table t, with string indexes a, b and flag byte fl
Dump(t, len, a, b, fl) ==
    CASE t = "bios" ->
            MkTable((1 :> len) @@ (4 :> a) @@ (5 :> b) @@ (19 :> fl) @@ (20 :> 2) @@ (21 :> 10),
                    <<65, NUL, 66, NUL, NUL>>)
      [] t = "system" ->
            MkTable((1 :> len) @@ (4 :> a) @@ (5 :> b) @@ UuidFields([i \in 1..16 |-> i]),
                    <<65, NUL, 66, NUL, NUL>>)
      [] t = "enclosure" ->
            MkTable((1 :> len) @@ (4 :> a) @@ (5 :> b), <<65, NUL, 66, NUL, NUL>>)

\* the dumps get_machine_info meets: missing, empty, one byte, cut short of
\* the type's offsets, a length byte beyond the end, a string index beyond
\* the string table, and two that decode
MachineDumps(t) ==
    {IoError,
     FileOk(<<>>),
     FileOk(Prefix(Dump(t, FormattedLen, 1, 2, 0), 1)),
     FileOk(Prefix(Dump(t, FormattedLen, 1, 2, 0), 8)),
     FileOk(Dump(t, 255, 1, 2, 0)),
     FileOk(Dump(t, FormattedLen, 1, 9, 0)),
     FileOk(Dump(t, FormattedLen, 1, 2, 247)),
     FileOk(Dump(t, FormattedLen, 2, 0, 8))}

---------------------------------------------------------------------------
(* get_machine_info, step by step: HardwareInfo::new (its fields in the    *)
(* order written), SoftwareInfo::new, build.                               *)

Init ==
    /\ pc = "hw_cpu_is_virtual"
    /\ env \in DecodeEnvs
    /\ section = <<>>
    /\ index = 0
    /\ result = NoResult
    /\ table = "none"
    /\ file = IoError
    /\ MachineIdle

idle_vars == <<section, index, table, file, threads, api_vars>>

\* cpu_is_virtual: determine_virtual_machine_status()
HwCpuIsVirtual ==
    /\ pc = "hw_cpu_is_virtual"
    /\ hw' = [hw EXCEPT !.cpu_is_virtual = determine_virtual_machine_status(env)]
    /\ pc' = "hw_get_root_device"
    /\ UNCHANGED <<idle_vars, env, result, lookups, sw, builder, disk_part_name,
                   handles, UNAME_INFO, once>>

\* get_root_device(): on Ok, and_then calls get_serial_number
GetRootDevice ==
    /\ pc = "hw_get_root_device"
    /\ \E mounts \in MountsFiles :
        LET device == get_root_device(mounts)
        IN  /\ lookups' = ("mounts" :> mounts) @@ lookups
            /\ result' = device
            /\ IF device.kind = "Ok"
               THEN disk_part_name' = device.val /\ pc' = "udev_new"
               ELSE disk_part_name' = disk_part_name /\ pc' = "hw_disk_serial_number"
    /\ UNCHANGED <<idle_vars, env, hw, sw, builder, handles, UNAME_INFO, once>>

Acquire(h) == [handles EXCEPT ![h].acquired = @ + 1]

\* get_serial_number: udev_new()
UdevNew ==
    /\ pc = "udev_new"
    /\ \E udev \in Pointers :
        IF udev = "null"
        THEN /\ result' = Err("Failed to create udev context")
             /\ pc' = "hw_disk_serial_number"
             /\ handles' = handles
        ELSE /\ handles' = Acquire("udev")
             /\ pc' = "udev_device_new"
             /\ result' = result
    /\ UNCHANGED <<idle_vars, env, lookups, hw, sw, builder, disk_part_name, UNAME_INFO, once>>

\* CString::new(disk_part_name)?, then udev_device_new_from_subsystem_sysname
UdevDeviceNew ==
    /\ pc = "udev_device_new"
    /\ \E dev \in Pointers :
        IF \E i \in 1..Len(disk_part_name) : disk_part_name[i] = NUL
        THEN /\ result' = Err("nul byte found in provided data")
             /\ pc' = "hw_disk_serial_number"
             /\ handles' = handles
        ELSE IF dev = "null"
        THEN /\ result' = Err("Failed to create udev device")
             /\ pc' = "hw_disk_serial_number"
             /\ handles' = handles
        ELSE /\ handles' = Acquire("dev")
             /\ pc' = "udev_get_parent"
             /\ result' = result
    /\ UNCHANGED <<idle_vars, env, lookups, hw, sw, builder, disk_part_name, UNAME_INFO, once>>

\* udev_device_get_parent_with_subsystem_devtype: the parent is borrowed
\* from dev, no handle of its own
UdevGetParent ==
    /\ pc = "udev_get_parent"
    /\ \E parent_dev \in Pointers :
        IF parent_dev = "null"
        THEN /\ result' = Err("Failed to get parent device")
             /\ pc' = "hw_disk_serial_number"
        ELSE /\ pc' = "udev_get_serial"
             /\ result' = result
    /\ UNCHANGED <<idle_vars, env, lookups, hw, sw, builder, disk_part_name, handles,
                   UNAME_INFO, once>>

\* udev_device_get_property_value, and the rest of the function: the serial
\* is copied, dev and udev are unreferenced
UdevGetSerial ==
    /\ pc = "udev_get_serial"
    /\ \E serial \in SerialProperties :
        IF ~serial.some
        THEN /\ result' = Err("Serial number not found")
             /\ handles' = handles
        ELSE /\ result' = Ok(from_utf8_lossy(serial.item))
             /\ handles' = [handles EXCEPT !["dev"].released = @ + 1,
                                           !["udev"].released = @ + 1]
    /\ pc' = "hw_disk_serial_number"
    /\ UNCHANGED <<idle_vars, env, lookups, hw, sw, builder, disk_part_name, UNAME_INFO, once>>

\* disk_serial_number: get_root_device().and_then(..).unwrap_or_default()
HwDiskSerialNumber ==
    /\ pc = "hw_disk_serial_number"
    /\ hw' = [hw EXCEPT !.disk_serial_number = unwrap_or(result, <<>>)]
    /\ lookups' = ("disk" :> result) @@ lookups
    /\ pc' = "hw_mac_addresses"
    /\ UNCHANGED <<idle_vars, env, result, sw, builder, disk_part_name, handles, UNAME_INFO, once>>

\* mac_addresses: get_mac_addresses()?
HwMacAddresses ==
    /\ pc = "hw_mac_addresses"
    /\ \E interfaces \in InterfaceLists :
        LET macs == get_mac_addresses(interfaces)
        IN  /\ lookups' = ("interfaces" :> interfaces) @@ lookups
            /\ IF macs.kind = "Ok"
               THEN /\ hw' = [hw EXCEPT !.mac_addresses = macs.val]
                    /\ pc' = "hw_bios_info"
                    /\ result' = result
               ELSE /\ hw' = hw
                    /\ pc' = "returned"
                    /\ result' = macs
    /\ UNCHANGED <<idle_vars, env, sw, builder, disk_part_name, handles, UNAME_INFO, once>>

\* bios_info with a fallback record that carries the detector's verdict
HwBiosInfo_fallback_with_verdict ==
    /\ pc = "hw_bios_info"
    /\ \E f \in MachineDumps("bios") :
        LET decoded == read_bios_info(f, env)
            fallback == [BiosInfoDefault EXCEPT
                            !.is_virtual_machine = determine_virtual_machine_status(env)]
        IN  /\ lookups' = ("bios" :> f) @@ lookups
            /\ IF decoded.kind = "Panic"
               THEN hw' = hw /\ pc' = "hw_panicked" /\ result' = decoded
               ELSE /\ hw' = [hw EXCEPT !.bios_info = unwrap_or(decoded, fallback)]
                    /\ pc' = "hw_system_info"
                    /\ result' = result
    /\ UNCHANGED <<idle_vars, env, sw, builder, disk_part_name, handles, UNAME_INFO, once>>

\* bios_info: read_bios_info(BIOS_INFO_PATH).unwrap_or_default()
HwBiosInfo ==
    /\ pc = "hw_bios_info"
    /\ \E f \in MachineDumps("bios") :
        LET decoded == read_bios_info(f, env)
        IN  /\ lookups' = ("bios" :> f) @@ lookups
            /\ IF decoded.kind = "Panic"
               THEN hw' = hw /\ pc' = "hw_panicked" /\ result' = decoded
               ELSE /\ hw' = [hw EXCEPT !.bios_info = unwrap_or(decoded, BiosInfoDefault)]
                    /\ pc' = "hw_system_info"
                    /\ result' = result
    /\ UNCHANGED <<idle_vars, env, sw, builder, disk_part_name, handles, UNAME_INFO, once>>

\* system_info: read_system_info(SYSTEM_INFO_PATH).unwrap_or_default()
HwSystemInfo ==
    /\ pc = "hw_system_info"
    /\ \E f \in MachineDumps("system") :
        LET decoded == read_system_info(f)
        IN  /\ lookups' = ("system" :> f) @@ lookups
            /\ IF decoded.kind = "Panic"
               THEN hw' = hw /\ pc' = "hw_panicked" /\ result' = decoded
               ELSE /\ hw' = [hw EXCEPT !.system_info = unwrap_or(decoded, SystemInfoDefault)]
                    /\ pc' = "hw_enclosure_info"
                    /\ result' = result
    /\ UNCHANGED <<idle_vars, env, sw, builder, disk_part_name, handles, UNAME_INFO, once>>

\* enclosure_info: read_enclosure_info(ENCLOSURE_INFO_PATH).unwrap_or_default(),
\* extra: None; Ok(HardwareInfo) goes to the builder's hardware setter
HwEnclosureInfo ==
    /\ pc = "hw_enclosure_info"
    /\ \E f \in MachineDumps("enclosure") :
        LET decoded == read_enclosure_info(f)
            done == [hw EXCEPT !.enclosure_info = unwrap_or(decoded, EnclosureInfoDefault),
                               !.extra = None]
        IN  /\ lookups' = ("enclosure" :> f) @@ lookups
            /\ IF decoded.kind = "Panic"
               THEN /\ hw' = hw /\ pc' = "hw_panicked" /\ result' = decoded
                    /\ builder' = builder
               ELSE /\ hw' = done
                    /\ builder' = [builder EXCEPT !.hardware = Some(done)]
                    /\ pc' = "sw_os_release"
                    /\ result' = result
    /\ UNCHANGED <<idle_vars, env, sw, disk_part_name, handles, UNAME_INFO, once>>

\* os_release: get_os_release()?
SwOsRelease ==
    /\ pc = "sw_os_release"
    /\ \E f \in OsReleaseFiles :
        LET text == get_os_release(f)
        IN  /\ lookups' = ("os_release" :> f) @@ lookups
            /\ IF text.kind = "Ok"
               THEN sw' = [sw EXCEPT !.os_release = text.val] /\ pc' = "sw_uname"
                    /\ result' = result
               ELSE sw' = sw /\ pc' = "returned" /\ result' = text
    /\ UNCHANGED <<idle_vars, env, hw, builder, disk_part_name, handles, UNAME_INFO, once>>

\* uname: get_cached_uname()?, extra: None; Ok(SoftwareInfo) goes to the
\* builder's software setter.  get_or_init runs get_uname().expect(..) only
\* on an unset cell; a panic of the initializer leaves the cell unset.
SwUname ==
    /\ pc = "sw_uname"
    /\ IF once = "complete"
       THEN /\ sw' = [sw EXCEPT !.uname = UNAME_INFO.item, !.extra = None]
            /\ builder' = [builder EXCEPT !.software = Some(sw')]
            /\ pc' = "build"
            /\ UNCHANGED <<UNAME_INFO, once, lookups, result>>
       ELSE \E uname \in Unames :
                LET info == get_uname(uname)
                IN  /\ lookups' = ("uname" :> uname) @@ lookups
                    /\ IF info.kind = "Ok"
                       THEN /\ UNAME_INFO' = Some(info.val)
                            /\ once' = "complete"
                            /\ sw' = [sw EXCEPT !.uname = info.val, !.extra = None]
                            /\ builder' = [builder EXCEPT !.software = Some(sw')]
                            /\ pc' = "build"
                            /\ result' = result
                       ELSE /\ UNCHANGED <<UNAME_INFO, sw, builder>>
                            /\ once' = "poisoned"
                            /\ pc' = "sw_panicked"
                            /\ result' = Panic("Failed to get uname info")
    /\ UNCHANGED <<idle_vars, env, hw, disk_part_name, handles>>

\* .build()
Build ==
    /\ pc = "build"
    /\ result' = build(builder)
    /\ pc' = "returned"
    /\ UNCHANGED <<idle_vars, env, lookups, hw, sw, builder, disk_part_name, handles,
                   UNAME_INFO, once>>

\* a later call of get_machine_info in the same process: only UNAME_INFO
\* outlives a call
NewCall ==
    /\ pc \in {"returned", "hw_panicked", "sw_panicked"}
    /\ pc' = "hw_cpu_is_virtual"
    /\ result' = NoResult
    /\ lookups' = NoLookups
    /\ hw' = HardwareInfoInit
    /\ sw' = SoftwareInfoInit
    /\ builder' = MachineInfoBuilderDefault
    /\ disk_part_name' = <<>>
    /\ handles' = NoHandles
    /\ UNCHANGED <<idle_vars, env, UNAME_INFO, once>>

Next ==
    \/ HwCpuIsVirtual \/ GetRootDevice
    \/ UdevNew \/ UdevDeviceNew \/ UdevGetParent \/ UdevGetSerial
    \/ HwDiskSerialNumber \/ HwMacAddresses
    \/ HwBiosInfo \/ HwSystemInfo \/ HwEnclosureInfo
    \/ SwOsRelease \/ SwUname \/ Build \/ NewCall

Spec == Init /\ [][Next]_vars

---------------------------------------------------------------------------
(* get_cached_uname from several threads: UNAME_INFO.get_or_init(..).      *)
(* The cell's Once is incomplete, running (one thread runs the             *)
(* initializer, the others wait), complete, or poisoned (the initializer   *)
(* panicked; call_once_force runs the next caller's initializer).          *)

MaxThreads == 3

Threads == 1..MaxThreads

call_vars ==
    <<pc, section, index, result, env, table, file,
      lookups, hw, sw, builder, disk_part_name, handles, api_vars>>

InitCache ==
    /\ pc = "cache"
    /\ env = NoEnv
    /\ section = <<>>
    /\ index = 0
    /\ result = NoResult
    /\ table = "none"
    /\ file = IoError
    /\ CallStart
    /\ UNAME_INFO = None
    /\ once = "incomplete"
    /\ threads = [t \in Threads |-> [pc |-> "idle", val |-> <<>>]]

\* a caller of call_once_force may run its closure without the Once's lock
call_once_may_run_unlocked(state) == state # "complete"

\* a caller of call_once_force may run its closure
call_once_may_run(state) == state \in {"incomplete", "poisoned"}

\* get_or_init's fast path: the cell is set, its value is cloned; or the
\* caller goes on to call_once_force
CachedUnameGet(t) ==
    /\ threads[t].pc \in {"idle", "returned"}
    /\ IF once = "complete"
       THEN threads' = [threads EXCEPT ![t] = [pc |-> "returned", val |-> UNAME_INFO.item]]
       ELSE threads' = [threads EXCEPT ![t] = [pc |-> "call_once", val |-> <<>>]]
    /\ UNCHANGED <<call_vars, UNAME_INFO, once>>

\* call_once_force: the caller starts the initializer, or finds the cell
\* set by another thread; while another thread runs its initializer it waits
CachedUnameCallOnce(t) ==
    /\ threads[t].pc = "call_once"
    /\ \/ /\ call_once_may_run(once)
          /\ once' = "running"
          /\ threads' = [threads EXCEPT ![t].pc = "init"]
          /\ UNCHANGED UNAME_INFO
       \/ /\ once = "complete"
          /\ threads' = [threads EXCEPT ![t] = [pc |-> "returned", val |-> UNAME_INFO.item]]
          /\ UNCHANGED <<UNAME_INFO, once>>
    /\ UNCHANGED call_vars

\* an initializer that stores the empty text when get_uname fails
CachedUnameInit_unwrap_or_default(t) ==
    /\ threads[t].pc = "init"
    /\ \E uname \in Unames :
        LET info == unwrap_or(get_uname(uname), <<>>)
        IN  /\ UNAME_INFO' = Some(info)
            /\ once' = "complete"
            /\ threads' = [threads EXCEPT ![t] = [pc |-> "returned", val |-> info]]
    /\ UNCHANGED call_vars

\* the initializer: get_uname().expect("Failed to get uname info")
CachedUnameInit(t) ==
    /\ threads[t].pc = "init"
    /\ \E uname \in Unames :
        LET info == get_uname(uname)
        IN  IF info.kind = "Ok"
            THEN /\ UNAME_INFO' = Some(info.val)
                 /\ once' = "complete"
                 /\ threads' = [threads EXCEPT ![t] = [pc |-> "returned", val |-> info.val]]
            ELSE /\ UNAME_INFO' = UNAME_INFO
                 /\ once' = "poisoned"
                 /\ threads' = [threads EXCEPT ![t] = [pc |-> "panicked", val |-> <<>>]]
    /\ UNCHANGED call_vars

NextCache ==
    \E t \in Threads : CachedUnameGet(t) \/ CachedUnameCallOnce(t) \/ CachedUnameInit(t)

SpecCache == InitCache /\ [][NextCache]_vars

---------------------------------------------------------------------------
(* C3, C4.  The probes, stated on the host's answers.                      *)

HasSubstring(t, p) ==
    \E i \in 0..(Len(t) - Len(p)) : \A j \in 1..Len(p) : t[i + j] = p[j]

\* a probe errored: the file cannot be read as text, the command cannot be
\* spawned, the sentinel's metadata cannot be read
ProbeErrored(e) ==
    [sys_hypervisor |-> \/ ~e.sys_hypervisor_type.ok
                        \/ INVALID_UTF8 \in {e.sys_hypervisor_type.bytes[i] :
                               i \in 1..Len(e.sys_hypervisor_type.bytes)},
     dmesg          |-> ~e.dmesg.ok,
     docker         |-> ~e.dockerenv.ok /\ ~e.dockerinit.ok,
     systemd        |-> ~e.systemctl.ok,
     cpuid          |-> FALSE,
     signature      |-> FALSE]

Lossy(bytes) == [i \in 1..Len(bytes) |-> IF bytes[i] = INVALID_UTF8 THEN 65533 ELSE bytes[i]]

\* what each probe signals on a host that answers it
ProbeSignal(e) ==
    [cpuid          |-> e.cpuid_1_ecx[1] >= 32768,
     signature      |-> e.cpuid_40000000 \in {SIG_VMWARE, SIG_HYPERV, SIG_KVM, SIG_XEN},
     sys_hypervisor |-> \/ HasSubstring(e.sys_hypervisor_type.bytes, TEXT_xen)
                        \/ HasSubstring(e.sys_hypervisor_type.bytes, TEXT_kvm),
     dmesg          |-> HasSubstring(Lossy(e.dmesg.bytes), TEXT_hypervisor),
     docker         |-> e.dockerenv.ok \/ e.dockerinit.ok,
     systemd        |-> HasSubstring(Lossy(e.systemctl.bytes), TEXT_running_in_container)]

Probes == {"cpuid", "signature", "sys_hypervisor", "dmesg", "docker", "systemd"}

\* the probes that are true: answered, and signalling
TrueProbes(e) == {p \in Probes : ~ProbeErrored(e)[p] /\ ProbeSignal(e)[p]}

\* C3: the verdict is true whenever some probe is true (in particular when
\* exactly one is and all others are false), and false only when every
\* probe is false or errored.
C3_VerdictIsOrOfProbes ==
    pc = "detect_done" =>
        /\ TrueProbes(env) # {} => result = TRUE
        /\ result = FALSE => \A p \in Probes : ProbeErrored(env)[p] \/ ~ProbeSignal(env)[p]

\* only the docker sentinel is true, every other probe is false, and the
\* verdict is true
C3_Witness ==
    /\ pc = "detect_done"
    /\ TrueProbes(env) = {"docker"}
    /\ \A p \in Probes \ {"docker"} : ~ProbeErrored(env)[p]
    /\ result = TRUE

\* C4: a probe that errors contributes false: the detection completes with
\* a boolean verdict that is the OR of the probes that did not error.
C4_ErroredProbeIsFalse ==
    pc = "detect_done" =>
        /\ result \in BOOLEAN
        /\ result = (\E p \in Probes : ~ProbeErrored(env)[p] /\ ProbeSignal(env)[p])

\* two probes errored, the systemd probe alone signalled, and the detection
\* completed with true
C4_Witness ==
    /\ pc = "detect_done"
    /\ ProbeErrored(env)["dmesg"]
    /\ ProbeErrored(env)["sys_hypervisor"]
    /\ TrueProbes(env) = {"systemd"}
    /\ result = TRUE

---------------------------------------------------------------------------
(* Bounds and input sets of the extract_string specification.              *)

MaxSectionLen == 4

MaxIndex == 255

SectionBytes == {NUL, 65, 255}

RECURSIVE SeqsUpTo(_, _)
SeqsUpTo(S, n) ==
    IF n = 0 THEN {<<>>}
    ELSE LET shorter == SeqsUpTo(S, n - 1)
         IN  shorter \cup {Append(s, b) : s \in {t \in shorter : Len(t) = n - 1}, b \in S}

Sections == SeqsUpTo(SectionBytes, MaxSectionLen)

InitExtract ==
    /\ pc = "extract_ready"
    /\ section \in Sections
    /\ index \in 0..MaxIndex
    /\ result = NoResult
    /\ env = NoEnv
    /\ table = "none"
    /\ file = IoError
    /\ MachineIdle

ExtractString ==
    /\ pc = "extract_ready"
    /\ result' = extract_string(section, index)
    /\ pc' = "extract_done"
    /\ UNCHANGED <<section, index, env, table, file, machine_vars>>

NextExtract == ExtractString

SpecExtract == InitExtract /\ [][NextExtract]_vars

---------------------------------------------------------------------------
(* C1.  Stated without split/nth: the segments of s are delimited by the   *)
(* positions of its NUL bytes.                                             *)

NulPositions(s) == {p \in 1..Len(s) : s[p] = NUL}

\* position of the k-th NUL of s (k >= 1)
NulAt(s, k) ==
    CHOOSE p \in NulPositions(s) :
        Cardinality({q \in NulPositions(s) : q <= p}) = k

SegmentCount(s) == Cardinality(NulPositions(s)) + 1

\* the k-th (0-based) NUL-delimited segment of s, as lossily decoded text
SegmentText(s, k) ==
    LET first == IF k = 0 THEN 1 ELSE NulAt(s, k) + 1
        last  == IF k + 1 = SegmentCount(s) THEN Len(s) ELSE NulAt(s, k + 1) - 1
    IN  [i \in 1..(last - first + 1) |->
            IF s[first + i - 1] < 128 THEN s[first + i - 1] ELSE REPLACEMENT_CHARACTER]

\* C1: extract_string(s, i) is the empty string when i = 0 whatever s is,
\* the (i-1)-th NUL-delimited segment of s when 0 < i <= number of segments,
\* and an error when i is beyond the number of segments.
C1_ExtractString ==
    pc = "extract_done" =>
        /\ index = 0 => result = Ok(<<>>)
        /\ (index > 0 /\ index <= SegmentCount(section)) =>
               /\ result.kind = "Ok"
               /\ result.val = SegmentText(section, index - 1)
        /\ index > SegmentCount(section) => result.kind = "Err"

\* the second segment, holding a byte that is no UTF-8, has been extracted
\* and decoded with the replacement character
C1_Witness ==
    /\ pc = "extract_done"
    /\ index = 2
    /\ section = <<65, NUL, 255, 65>>
    /\ result = Ok(<<REPLACEMENT_CHARACTER, 65>>)

---------------------------------------------------------------------------
(* C2, C6.  The decoders on a table dump.                                  *)

StringOffsets(t) ==
    CASE t = "bios" -> {4, 5, 8}
      [] t = "system" -> {4, 5, 7}
      [] t = "enclosure" -> {4, 5, 6, 7, 8}

\* the smallest buffer that holds every offset of the type: 0x16, 0x18, 0x09
MinLen(t) ==
    CASE t = "bios" -> 22
      [] t = "system" -> 24
      [] t = "enclosure" -> 9

\* a dump too short for its type, or whose length byte is beyond its end
Malformed(t, buffer) ==
    \/ Len(buffer) < 2
    \/ Len(buffer) < MinLen(t)
    \/ buffer[2] > Len(buffer)

\* a dump that holds every offset of its type, whose length byte is within
\* it and whose string indexes all name a segment of its string table
WellFormed(t, buffer) ==
    /\ ~Malformed(t, buffer)
    /\ \A o \in StringOffsets(t) :
           buffer[o + 1] <= SegmentCount(SubSeq(buffer, buffer[2] + 1, Len(buffer)))

\* C2: on a well-formed BIOS dump the decoded is_virtual_machine is
\* (bit 3 of byte 0x13) OR (the detector's verdict on the host).
C2_IsVirtualMachineIsOr ==
    (pc = "decode_done" /\ table = "bios" /\ file.ok /\ WellFormed("bios", file.bytes)) =>
        /\ result.kind = "Ok"
        /\ result.val.is_virtual_machine =
               (((file.bytes[20] \div 8) % 2 = 1) \/ determine_virtual_machine_status(env))

\* a well-formed dump with bit 3 clear (0xF7) decoded on a host where only
\* the detector says virtual
C2_Witness ==
    /\ pc = "decode_done" /\ table = "bios" /\ file.ok
    /\ WellFormed("bios", file.bytes)
    /\ file.bytes[20] = 247
    /\ TrueProbes(env) = {"docker"}
    /\ result.kind = "Ok" /\ result.val.is_virtual_machine = TRUE

\* C6: a dump shorter than its type needs, or whose length byte exceeds its
\* size, yields an error value, never a panic.
C6_MalformedIsError ==
    (pc = "decode_done" /\ file.ok /\ Malformed(table, file.bytes)) => result.kind = "Err"

---------------------------------------------------------------------------
(* C5, C7, C9, C10.  get_machine_info.                                     *)

RecordOf(t) ==
    CASE t = "bios" -> hw.bios_info
      [] t = "system" -> hw.system_info
      [] t = "enclosure" -> hw.enclosure_info

DefaultOf(t) ==
    CASE t = "bios" -> BiosInfoDefault
      [] t = "system" -> SystemInfoDefault
      [] t = "enclosure" -> EnclosureInfoDefault

\* C5: a table dump that is missing or malformed (empty and truncated dumps
\* included) leaves its record all-default and never fails HardwareInfo::new.
C5_TableFailureDegrades ==
    \A t \in Tables :
        (t \in DOMAIN lookups /\ (~lookups[t].ok \/ ~WellFormed(t, lookups[t].bytes))) =>
            /\ pc # "hw_panicked"
            /\ RecordOf(t) = DefaultOf(t)

\* C7: when get_serial_number has returned, on whatever path, every handle
\* it acquired has been released exactly once.
C7_HandlesReleased ==
    pc = "hw_disk_serial_number" =>
        \A h \in DOMAIN handles : handles[h].released = handles[h].acquired

MacFailed ==
    "interfaces" \in DOMAIN lookups /\ get_mac_addresses(lookups["interfaces"]).kind = "Err"

\* C9: get_machine_info returns an error only when the MAC-address
\* enumeration failed; any other failed lookup leaves a successful snapshot.
C9_OnlyMacFailureIsHard ==
    (pc = "returned" /\ result.kind = "Err") => MacFailed

\* C10: when the root-device or the udev lookup failed, disk_serial_number
\* is the empty string and HardwareInfo::new still succeeds.
C10_DiskFailureDegrades ==
    ("disk" \in DOMAIN lookups /\ lookups["disk"].kind = "Err") =>
        /\ hw.disk_serial_number = <<>>
        /\ pc # "hw_panicked"

---------------------------------------------------------------------------
(* C8.  The uname cache under concurrent first calls.                      *)

\* C8: UNAME_INFO is set at most once and never changed or cleared after,
\* and every call that returns, returns the value it holds.
C8_InitializedOnce ==
    [][/\ UNAME_INFO.some => UNAME_INFO' = UNAME_INFO
       /\ \A t \in DOMAIN threads :
              threads'[t].pc = "returned" =>
                  (UNAME_INFO'.some /\ threads'[t].val = UNAME_INFO'.item)]_vars

\* a concurrent first access: one thread went past the fast path while the
\* cell was unset and now finds it set by the thread that ran the
\* initializer and returned its value
C8_Witness ==
    /\ pc = "cache"
    /\ once = "complete" /\ UNAME_INFO.some
    /\ \E t1, t2 \in Threads :
           /\ threads[t1].pc = "call_once"
           /\ threads[t2].pc = "returned" /\ threads[t2].val = UNAME_INFO.item

---------------------------------------------------------------------------
(* C11.  One string index beyond the string table.                         *)

\* the string index offsets of a table type in the order the decoder reads
\* them, and the record fields they fill
StringOffsetSeq(t) ==
    CASE t = "bios" -> <<4, 5, 8>>
      [] t = "system" -> <<4, 5, 7>>
      [] t = "enclosure" -> <<4, 5, 6, 7, 8>>

StringFieldsOf(t, r) ==
    CASE t = "bios" -> <<r.vendor, r.bios_version, r.bios_release_date>>
      [] t = "system" -> <<r.manufacturer, r.product_name, r.serial_number>>
      [] t = "enclosure" -> <<r.manufacturer, r.enclosure_type, r.version,
                              r.serial_number, r.asset_tag_number>>

UnformedOf(buffer) == SubSeq(buffer, buffer[2] + 1, Len(buffer))

\* a dump that holds every offset of its type and has a string index that
\* names no segment of its string table
HasIndexBeyond(t, buffer) ==
    /\ ~Malformed(t, buffer)
    /\ \E o \in StringOffsets(t) : buffer[o + 1] > SegmentCount(UnformedOf(buffer))

\* the table lookup HardwareInfo::new made last
LastTableRead(t) ==
    /\ t \in DOMAIN lookups
    /\ (t = "bios") => "system" \notin DOMAIN lookups
    /\ (t = "system") => "enclosure" \notin DOMAIN lookups

\* C11: when a string index of a table is beyond its string table, that
\* field is the empty string, every other string field of the record keeps
\* its decoded value, and HardwareInfo::new goes on.
C11_ExtractionFailureIsLocal ==
    \A t \in Tables :
        (LastTableRead(t) /\ lookups[t].ok /\ HasIndexBeyond(t, lookups[t].bytes)) =>
            LET buffer == lookups[t].bytes
                fields == StringFieldsOf(t, RecordOf(t))
                offsets == StringOffsetSeq(t)
            IN  /\ pc # "hw_panicked"
                /\ \A k \in 1..Len(offsets) :
                       LET i == buffer[offsets[k] + 1]
                       IN  fields[k] = IF i = 0 \/ i > SegmentCount(UnformedOf(buffer))
                                       THEN <<>>
                                       ELSE SegmentText(UnformedOf(buffer), i - 1)

---------------------------------------------------------------------------
(* C12.  The uuid of the System table.                                     *)

\* the sixteen lowercase hexadecimal digits, as text
LowerHexDigits == <<48, 49, 50, 51, 52, 53, 54, 55, 56, 57, 97, 98, 99, 100, 101, 102>>

HYPHEN == 45

\* where the hyphens of the 8-4-4-4-12 form stand (1-based)
HyphenPositions == {9, 14, 19, 24}

\* "01020304-0506-0708-090a-0b0c0d0e0f10"
TEXT_uuid_01_to_10 ==
    <<48, 49, 48, 50, 48, 51, 48, 52, 45, 48, 53, 48, 54, 45, 48, 55, 48, 56, 45,
      48, 57, 48, 97, 45, 48, 98, 48, 99, 48, 100, 48, 101, 48, 102, 49, 48>>

\* the bytes at offsets 0x08..0x17 of a dump
UuidBytesOf(buffer) == [k \in 1..16 |-> buffer[8 + k]]

\* C12: the decoded uuid of a System dump has 36 characters, hyphens after
\* the 4th, 6th, 8th and 10th byte, and between them the bytes 0x08..0x17 in
\* buffer order, each as two lowercase hex digits, high nibble first; the
\* bytes 01..10 give "01020304-0506-0708-090a-0b0c0d0e0f10".
C12_UuidFormat ==
    (pc = "decode_done" /\ table = "system" /\ result.kind = "Ok") =>
        LET uuid == result.val.uuid
            bytes == UuidBytesOf(file.bytes)
        IN  /\ Len(uuid) = 36
            /\ \A p \in 1..36 :
                   IF p \in HyphenPositions THEN uuid[p] = HYPHEN
                   ELSE LET d == p - Cardinality({q \in HyphenPositions : q < p})
                            byte == bytes[(d + 1) \div 2]
                        IN  uuid[p] = LowerHexDigits[1 + (IF d % 2 = 1 THEN byte \div 16
                                                          ELSE byte % 16)]
            /\ (bytes = [k \in 1..16 |-> k]) => uuid = TEXT_uuid_01_to_10

\* the dump with bytes 01..10 at 0x08..0x17 has been decoded to the text of
\* the example
C12_Witness ==
    /\ pc = "decode_done" /\ table = "system" /\ file.ok
    /\ Len(file.bytes) >= 24
    /\ UuidBytesOf(file.bytes) = [k \in 1..16 |-> k]
    /\ result.kind = "Ok"
    /\ result.val.uuid = TEXT_uuid_01_to_10

---------------------------------------------------------------------------
(* C13.  The "Vendor" / "Ver1" BIOS dump.                                  *)

EndsWith(buffer, tail) ==
    /\ Len(buffer) >= Len(tail)
    /\ SubSeq(buffer, Len(buffer) - Len(tail) + 1, Len(buffer)) = tail

\* a BIOS dump with index bytes 0x04 = 1 and 0x05 = 2, byte 0x13 = 0x08 and
\* the string table "Vendor\0Ver1\0\0" as its last bytes
VendorScenario(buffer) ==
    /\ Len(buffer) >= 20
    /\ buffer[5] = 1 /\ buffer[6] = 2
    /\ buffer[20] = 8
    /\ EndsWith(buffer, VendorTable)

DecodedVendorVer1 ==
    /\ result.kind = "Ok"
    /\ result.val.vendor = TEXT_Vendor
    /\ result.val.bios_version = TEXT_Ver1
    /\ result.val.is_virtual_machine = TRUE

\* C13 as stated: such a dump with length byte 0x12 decodes to vendor
\* "Vendor", bios_version "Ver1" and is_virtual_machine true.
C13_LengthByte12 ==
    (pc = "decode_done" /\ table = "bios" /\ file.ok
     /\ VendorScenario(file.bytes) /\ file.bytes[2] = 18) => DecodedVendorVer1

\* C13: a BIOS dump whose length byte is the offset at which its string
\* table "Vendor\0Ver1\0\0" begins (0x16 or more), with index bytes 0x04 = 1
\* and 0x05 = 2, a release-date index 0x08 of at most 4 and byte 0x13 = 0x08,
\* decodes to vendor "Vendor", bios_version "Ver1" and is_virtual_machine
\* true.
C13_LengthByteIsTableOffset ==
    (pc = "decode_done" /\ table = "bios" /\ file.ok
     /\ VendorScenario(file.bytes)
     /\ file.bytes[2] >= 22
     /\ file.bytes[2] + Len(VendorTable) = Len(file.bytes)
     /\ file.bytes[9] <= 4) => DecodedVendorVer1

\* such a dump with its string table at 0x18 has been decoded on a host
\* where no detector probe fires
C13_Witness ==
    /\ pc = "decode_done" /\ table = "bios" /\ file.ok
    /\ VendorScenario(file.bytes)
    /\ file.bytes[2] = 24 /\ Len(file.bytes) = 24 + Len(VendorTable)
    /\ file.bytes[9] = 0
    /\ TrueProbes(env) = {}
    /\ DecodedVendorVer1

---------------------------------------------------------------------------
(* C17.  The BIOS record of a snapshot whose BIOS table gave nothing.      *)

\* the BIOS dump was missing or unreadable, or a string index of it names
\* no string (a dump too short to decode returns no snapshot at all)
BiosNotDecoded ==
    /\ "bios" \in DOMAIN lookups
    /\ \/ ~lookups["bios"].ok
       \/ ~WellFormed("bios", lookups["bios"].bytes)

\* C17: in every snapshot HardwareInfo::new returned although the BIOS
\* table could not be read or decoded, bios_info.is_virtual_machine is
\* false, whatever cpu_is_virtual says.
C17_DefaultBiosIsNotVirtual ==
    (builder.hardware.some /\ BiosNotDecoded) =>
        /\ builder.hardware.item.bios_info = BiosInfoDefault
        /\ builder.hardware.item.bios_info.is_virtual_machine = FALSE

\* a returned snapshot, its BIOS dump missing, on a host the detector calls
\* virtual: cpu_is_virtual is true and bios_info.is_virtual_machine false
C17_Witness ==
    /\ pc = "returned" /\ result.kind = "Ok"
    /\ BiosNotDecoded /\ ~lookups["bios"].ok
    /\ result.val.hardware.cpu_is_virtual = TRUE
    /\ result.val.hardware.bios_info.is_virtual_machine = FALSE

---------------------------------------------------------------------------
(* C18.  get_cached_uname when get_uname fails.                            *)

\* the texts get_uname can produce
UnameTexts == {get_uname(u).val : u \in {v \in Unames : get_uname(v).kind = "Ok"}}

\* a call has ended: it returned Ok(text) or it unwound with a panic
CallEnded(t) == threads[t].pc \in {"returned", "panicked"}

\* every call that returned holds the stored text, which get_uname produced
C18_ReturnsStoredText ==
    \A t \in DOMAIN threads :
        threads[t].pc = "returned" =>
            /\ UNAME_INFO.some
            /\ threads[t].val = UNAME_INFO.item
            /\ threads[t].val \in UnameTexts

\* after a failed initializer a caller may run the initializer again, and
\* once the cell is set no caller may
C18_InitializerMayRun ==
    \A t \in DOMAIN threads :
        threads[t].pc = "call_once" =>
            /\ (once = "poisoned" /\ ~UNAME_INFO.some) => ENABLED CachedUnameCallOnce(t)
            /\ UNAME_INFO.some => once = "complete"

C18_Step ==
    \A t \in DOMAIN threads :
        \* a call fails only by the panic of its initializer, which leaves
        \* the cell unset
        /\ (threads'[t].pc = "panicked" /\ threads[t].pc # "panicked") =>
               /\ threads[t].pc = "init"
               /\ ~UNAME_INFO.some /\ ~UNAME_INFO'.some
               /\ once' = "poisoned"
        \* once the cell is set no call enters the initializer (get_uname)
        /\ UNAME_INFO.some => threads'[t].pc # "init" /\ threads[t].pc # "init"
        \* a caller that finds the Once poisoned goes into the initializer
        /\ (once = "poisoned" /\ threads[t].pc = "call_once" /\ threads'[t] # threads[t]) =>
               threads'[t].pc = "init"

\* C18: get_cached_uname ends with the stored text or with a panic, never
\* with an error value; a failing get_uname panics inside the initializer
\* and leaves the cell unset, so that a later call runs the initializer
\* again; once the cell is set, no later call runs get_uname.
C18_FailureIsPanicAndRetry ==
    /\ [](pc = "cache" => C18_ReturnsStoredText /\ C18_InitializerMayRun)
    /\ [][pc = "cache" => C18_Step]_vars

\* one call panicked in the initializer, a later one ran the initializer
\* again and returned the text it stored, and a third returned the same
\* text from the set cell
C18_Witness ==
    /\ pc = "cache"
    /\ \E t1, t2, t3 \in Threads :
           /\ t2 # t3
           /\ threads[t1].pc = "panicked"
           /\ threads[t2].pc = "returned" /\ threads[t3].pc = "returned"
           /\ UNAME_INFO.some
           /\ threads[t2].val = UNAME_INFO.item /\ threads[t3].val = UNAME_INFO.item

---------------------------------------------------------------------------
(* serde_json::Value, as far as the program uses it.                       *)

Null == [type |-> "null", val |-> <<>>]

Bool(b) == [type |-> "bool", val |-> <<b>>]

String(text) == [type |-> "string", val |-> text]

\* an object: a map from keys to values (serde_json keeps it sorted by key)
Object(map) == [type |-> "object", val |-> map]

\* the texts "value" and "other"
TEXT_value == <<118, 97, 108, 117, 101>>

TEXT_other == <<111, 116, 104, 101, 114>>

\* json!({"custom_field": "value"})
CustomFieldObject == Object([k \in {"custom_field"} |-> String(TEXT_value)])

---------------------------------------------------------------------------
(* MachineInfoBuilder: its setters, each taking and returning the builder. *)

\* a setter that keeps a hardware value already set
hardware_keep_first(self, hardware_info) ==
    IF self.hardware.some THEN self ELSE [self EXCEPT !.hardware = Some(hardware_info)]

hardware(self, hardware_info) == [self EXCEPT !.hardware = Some(hardware_info)]

software(self, software_info) == [self EXCEPT !.software = Some(software_info)]

extra(self, value) == [self EXCEPT !.extra = Some(value)]

\* the most setter calls made on one builder
MaxSetterCalls == 4

HardwareInfos ==
    {HardwareInfoInit,
     [HardwareInfoInit EXCEPT !.cpu_is_virtual = TRUE, !.extra = Some(Bool(TRUE))]}

SoftwareInfos ==
    {SoftwareInfoInit, [SoftwareInfoInit EXCEPT !.os_release = TEXT_other]}

Extras == {Null, String(TEXT_other), CustomFieldObject}

InitBuilder ==
    /\ pc = "builder"
    /\ env = NoEnv
    /\ section = <<>>
    /\ index = 0
    /\ result = NoResult
    /\ table = "none"
    /\ file = IoError
    /\ MachineIdle

builder_idle_vars ==
    <<section, index, env, table, file, lookups, hw, sw, disk_part_name, handles,
      UNAME_INFO, once, threads, machine_info, serialized>>

SetHardware ==
    /\ pc = "builder"
    /\ Len(setter_calls) < MaxSetterCalls
    /\ \E h \in HardwareInfos :
        /\ builder' = hardware(builder, h)
        /\ setter_calls' = Append(setter_calls, [setter |-> "hardware", arg |-> h])
    /\ UNCHANGED <<pc, result, builder_idle_vars>>

SetSoftware ==
    /\ pc = "builder"
    /\ Len(setter_calls) < MaxSetterCalls
    /\ \E s \in SoftwareInfos :
        /\ builder' = software(builder, s)
        /\ setter_calls' = Append(setter_calls, [setter |-> "software", arg |-> s])
    /\ UNCHANGED <<pc, result, builder_idle_vars>>

SetExtra ==
    /\ pc = "builder"
    /\ Len(setter_calls) < MaxSetterCalls
    /\ \E x \in Extras :
        /\ builder' = extra(builder, x)
        /\ setter_calls' = Append(setter_calls, [setter |-> "extra", arg |-> x])
    /\ UNCHANGED <<pc, result, builder_idle_vars>>

\* build(self) consumes the builder
BuilderBuild ==
    /\ pc = "builder"
    /\ result' = build(builder)
    /\ pc' = "built"
    /\ UNCHANGED <<builder, setter_calls, builder_idle_vars>>

NextBuilder == SetHardware \/ SetSoftware \/ SetExtra \/ BuilderBuild

SpecBuilder == InitBuilder /\ [][NextBuilder]_vars

---------------------------------------------------------------------------
(* C16.  build after any sequence of setter calls.                         *)

\* the arguments passed to one setter, in call order
ArgsOf(name) ==
    LET IsCall(c) == c.setter = name
        picked == SelectSeq(setter_calls, IsCall)
    IN  [k \in 1..Len(picked) |-> picked[k].arg]

LastOf(args) == args[Len(args)]

\* C16: build returns an error exactly when the hardware or the software
\* setter was never called; otherwise it returns the MachineInfo made of the
\* last value passed to each setter, with extra None when the extra setter
\* was never called.
C16_BuildAfterSetters ==
    pc = "built" =>
        /\ result.kind \in {"Ok", "Err"}
        /\ result.kind = "Err" <=> (ArgsOf("hardware") = <<>> \/ ArgsOf("software") = <<>>)
        /\ result.kind = "Ok" =>
               /\ result.val.hardware = LastOf(ArgsOf("hardware"))
               /\ result.val.software = LastOf(ArgsOf("software"))
               /\ result.val.extra = IF ArgsOf("extra") = <<>> THEN None
                                     ELSE Some(LastOf(ArgsOf("extra")))

\* build after the hardware setter was called twice with different values,
\* the software setter once and the extra setter never
C16_Witness ==
    /\ pc = "built"
    /\ Len(ArgsOf("hardware")) = 2
    /\ ArgsOf("hardware")[1] # ArgsOf("hardware")[2]
    /\ ArgsOf("extra") = <<>>
    /\ result.kind = "Ok"
    /\ result.val.hardware = ArgsOf("hardware")[2]
    /\ result.val.extra = None

---------------------------------------------------------------------------
(* Serialize / Deserialize as derived for the records, on JSON documents.  *)
(* A document is the serde_json::Value tree that to_string writes and      *)
(* from_str reads; its values here are null, booleans, strings and         *)
(* objects.                                                                *)

EmptyMap == [k \in {} |-> Null]

\* derive(Serialize) on a record of String and bool fields
serialize_record(r, bools) ==
    Object([k \in DOMAIN r |-> IF k \in bools THEN Bool(r[k]) ELSE String(r[k])])

\* #[serde(skip_serializing_if = "Option::is_none")] extra: Option<Value>
serialize_extra(option) ==
    IF option.some THEN [k \in {"extra"} |-> option.item] ELSE EmptyMap

serialize_BiosInfo(b) == serialize_record(b, {"is_virtual_machine"})

serialize_SystemInfo(s) == serialize_record(s, {})

serialize_EnclosureInfo(e) == serialize_record(e, {})

serialize_HardwareInfo(h) ==
    Object([k \in {"cpu_is_virtual", "disk_serial_number", "mac_addresses",
                   "bios_info", "system_info", "enclosure_info"} |->
               CASE k = "cpu_is_virtual" -> Bool(h.cpu_is_virtual)
                 [] k = "disk_serial_number" -> String(h.disk_serial_number)
                 [] k = "mac_addresses" -> String(h.mac_addresses)
                 [] k = "bios_info" -> serialize_BiosInfo(h.bios_info)
                 [] k = "system_info" -> serialize_SystemInfo(h.system_info)
                 [] k = "enclosure_info" -> serialize_EnclosureInfo(h.enclosure_info)]
           @@ serialize_extra(h.extra))

serialize_SoftwareInfo(s) ==
    Object([k \in {"os_release", "uname"} |-> String(s[k])] @@ serialize_extra(s.extra))

serialize_MachineInfo(m) ==
    Object([k \in {"hardware", "software"} |->
               IF k = "hardware" THEN serialize_HardwareInfo(m.hardware)
               ELSE serialize_SoftwareInfo(m.software)]
           @@ serialize_extra(m.extra))

\* derive(Deserialize) on a record of String and bool fields: keys that
\* name no field are skipped, a field of the wrong type or a missing field
\* is an error
deserialize_record(v, fields, bools) ==
    IF v.type # "object" THEN Err("invalid type")
    ELSE LET map == v.val
             present == fields \cap DOMAIN map
         IN  IF \E k \in present : map[k].type # (IF k \in bools THEN "bool" ELSE "string")
             THEN Err("invalid type")
             ELSE IF present # fields THEN Err("missing field")
             ELSE Ok([k \in fields |-> IF k \in bools THEN map[k].val[1] ELSE map[k].val])

\* a field of a record type: missing, or what its own Deserialize gives
deserialize_field(map, k, nested) ==
    IF k \in DOMAIN map THEN nested ELSE Err("missing field")

\* extra: Option<Value>: a missing key and null are None
deserialize_extra(map) ==
    IF "extra" \notin DOMAIN map THEN None
    ELSE IF map["extra"].type = "null" THEN None
    ELSE Some(map["extra"])

deserialize_BiosInfo(v) == deserialize_record(v, DOMAIN BiosInfoDefault, {"is_virtual_machine"})

deserialize_SystemInfo(v) == deserialize_record(v, DOMAIN SystemInfoDefault, {})

deserialize_EnclosureInfo(v) == deserialize_record(v, DOMAIN EnclosureInfoDefault, {})

deserialize_HardwareInfo(v) ==
    IF v.type # "object" THEN Err("invalid type")
    ELSE LET map == v.val
             scalars == deserialize_record(v, {"cpu_is_virtual", "disk_serial_number",
                                               "mac_addresses"}, {"cpu_is_virtual"})
             bios == deserialize_field(map, "bios_info", deserialize_BiosInfo(map["bios_info"]))
             system == deserialize_field(map, "system_info",
                                         deserialize_SystemInfo(map["system_info"]))
             enclosure == deserialize_field(map, "enclosure_info",
                                            deserialize_EnclosureInfo(map["enclosure_info"]))
         IN  IF scalars.kind # "Ok" THEN scalars
             ELSE IF bios.kind # "Ok" THEN bios
             ELSE IF system.kind # "Ok" THEN system
             ELSE IF enclosure.kind # "Ok" THEN enclosure
             ELSE Ok([cpu_is_virtual |-> scalars.val.cpu_is_virtual,
                      disk_serial_number |-> scalars.val.disk_serial_number,
                      mac_addresses |-> scalars.val.mac_addresses,
                      bios_info |-> bios.val,
                      system_info |-> system.val,
                      enclosure_info |-> enclosure.val,
                      extra |-> deserialize_extra(map)])

deserialize_SoftwareInfo(v) ==
    LET strings == deserialize_record(v, {"os_release", "uname"}, {})
    IN  IF strings.kind # "Ok" THEN strings
        ELSE Ok([os_release |-> strings.val.os_release,
                 uname |-> strings.val.uname,
                 extra |-> deserialize_extra(v.val)])

\* a MachineInfo that rejects keys naming no field
deserialize_MachineInfo_deny_unknown_fields(v) ==
    IF v.type # "object" THEN Err("invalid type")
    ELSE IF DOMAIN v.val \ {"hardware", "software", "extra"} # {} THEN Err("unknown field")
    ELSE LET map == v.val
             hardware_info == deserialize_field(map, "hardware",
                                                deserialize_HardwareInfo(map["hardware"]))
             software_info == deserialize_field(map, "software",
                                                deserialize_SoftwareInfo(map["software"]))
         IN  IF hardware_info.kind # "Ok" THEN hardware_info
             ELSE IF software_info.kind # "Ok" THEN software_info
             ELSE Ok([hardware |-> hardware_info.val, software |-> software_info.val,
                      extra |-> deserialize_extra(map)])

deserialize_MachineInfo(v) ==
    IF v.type # "object" THEN Err("invalid type")
    ELSE LET map == v.val
             hardware_info == deserialize_field(map, "hardware",
                                                deserialize_HardwareInfo(map["hardware"]))
             software_info == deserialize_field(map, "software",
                                                deserialize_SoftwareInfo(map["software"]))
         IN  IF hardware_info.kind # "Ok" THEN hardware_info
             ELSE IF software_info.kind # "Ok" THEN software_info
             ELSE Ok([hardware |-> hardware_info.val, software |-> software_info.val,
                      extra |-> deserialize_extra(map)])

---------------------------------------------------------------------------
(* The records and the documents given to to_string and from_str.          *)

\* a virtual machine's hardware, and the all-default one
SampleHardwareInfo ==
    [cpu_is_virtual |-> TRUE,
     disk_serial_number |-> TEXT_other,
     mac_addresses |-> <<>>,
     bios_info |-> [BiosInfoDefault EXCEPT !.vendor = TEXT_Vendor,
                                           !.is_virtual_machine = TRUE,
                                           !.system_bios_major_release = u8_to_string(0)],
     system_info |-> [SystemInfoDefault EXCEPT !.uuid = TEXT_uuid_01_to_10],
     enclosure_info |-> [EnclosureInfoDefault EXCEPT !.version = TEXT_Ver1],
     extra |-> None]

\* a software record whose uname text holds a quotation mark
SampleSoftwareInfo ==
    [os_release |-> TEXT_other, uname |-> <<34, 120, 34>>, extra |-> None]

OptionalExtras == {None} \cup {Some(x) : x \in Extras}

MachineInfos ==
    {[hardware |-> [h EXCEPT !.extra = xh], software |-> [s EXCEPT !.extra = xs], extra |-> x] :
        h \in {HardwareInfoInit, SampleHardwareInfo},
        s \in {SoftwareInfoInit, SampleSoftwareInfo},
        xh \in OptionalExtras, xs \in OptionalExtras, x \in OptionalExtras}

\* the objects of a payload
Levels == {"top", "hardware", "software", "bios_info", "system_info", "enclosure_info"}

\* the levels that can hold an `extra` key
ExtraLevels == {"top", "hardware", "software"}

\* a key that names no field, at the levels of U
UnknownField(level, U) ==
    IF level \in U THEN [k \in {"unknown_field"} |-> String(TEXT_value)] ELSE EmptyMap

\* the `extra` key of a payload: absent, null or an object
ExtraKey(choice) ==
    CASE choice = "absent" -> EmptyMap
      [] choice = "null" -> [k \in {"extra"} |-> Null]
      [] choice = "object" -> [k \in {"extra"} |-> CustomFieldObject]

\* the keys of a record of String and bool fields
FieldsOf(r, bools) == [k \in DOMAIN r |-> IF k \in bools THEN Bool(r[k]) ELSE String(r[k])]

\* the payload that holds the fields of SampleHardwareInfo and
\* SampleSoftwareInfo, keys naming no field at the levels of U, and the
\* `extra` keys X chooses
Payload(U, X) ==
    LET h == SampleHardwareInfo
        s == SampleSoftwareInfo
        bios == Object(FieldsOf(h.bios_info, {"is_virtual_machine"})
                       @@ UnknownField("bios_info", U))
        system == Object(FieldsOf(h.system_info, {}) @@ UnknownField("system_info", U))
        enclosure == Object(FieldsOf(h.enclosure_info, {})
                            @@ UnknownField("enclosure_info", U))
        hardware_object ==
            Object([k \in {"cpu_is_virtual"} |-> Bool(h.cpu_is_virtual)]
                   @@ [k \in {"disk_serial_number", "mac_addresses"} |-> String(h[k])]
                   @@ [k \in {"bios_info"} |-> bios]
                   @@ [k \in {"system_info"} |-> system]
                   @@ [k \in {"enclosure_info"} |-> enclosure]
                   @@ UnknownField("hardware", U) @@ ExtraKey(X["hardware"]))
        software_object ==
            Object([k \in {"os_release", "uname"} |-> String(s[k])]
                   @@ UnknownField("software", U) @@ ExtraKey(X["software"]))
    IN  Object([k \in {"hardware"} |-> hardware_object]
               @@ [k \in {"software"} |-> software_object]
               @@ UnknownField("top", U) @@ ExtraKey(X["top"]))

NoExtraKeys == [l \in ExtraLevels |-> "absent"]

\* a map without key k
Without(map, k) == [j \in DOMAIN map \ {k} |-> map[j]]

\* payloads that are no MachineInfo: not an object, hardware null, a boolean
\* given as a string, a nested record without one of its fields, software
\* without uname
BrokenPayloads ==
    LET good == Payload({}, NoExtraKeys).val
        hardware_map == good["hardware"].val
    IN  {String(TEXT_value),
         Object([good EXCEPT !["hardware"] = Null]),
         Object([good EXCEPT !["hardware"] =
                    Object([hardware_map EXCEPT !["cpu_is_virtual"] = String(TEXT_value)])]),
         Object([good EXCEPT !["hardware"] =
                    Object([hardware_map EXCEPT !["bios_info"] =
                               Object(Without(hardware_map["bios_info"].val, "vendor"))])]),
         Object([good EXCEPT !["software"] = Object(Without(good["software"].val, "uname"))])}

Payloads ==
    {Payload(U, X) : U \in SUBSET Levels,
                     X \in [ExtraLevels -> {"absent", "null", "object"}]}
        \cup BrokenPayloads

\* a record to serialize and read back, or a payload to read
InitSerde ==
    /\ \/ /\ pc = "serde_ready"
          /\ machine_info \in MachineInfos
          /\ serialized = None
       \/ /\ pc = "payload_ready"
          /\ machine_info = None
          /\ serialized \in Payloads
    /\ env = NoEnv
    /\ section = <<>>
    /\ index = 0
    /\ result = NoResult
    /\ table = "none"
    /\ file = IoError
    /\ lookups = NoLookups
    /\ hw = HardwareInfoInit
    /\ sw = SoftwareInfoInit
    /\ builder = MachineInfoBuilderDefault
    /\ disk_part_name = <<>>
    /\ handles = NoHandles
    /\ setter_calls = <<>>
    /\ UNAME_INFO = None
    /\ once = "incomplete"
    /\ threads = NoThreads

serde_idle_vars ==
    <<section, index, env, table, file, lookups, hw, sw, builder, disk_part_name, handles,
      UNAME_INFO, once, threads, setter_calls>>

\* serde_json::to_string(&machine_info)
to_string ==
    /\ pc = "serde_ready"
    /\ serialized' = serialize_MachineInfo(machine_info)
    /\ pc' = "serialized"
    /\ UNCHANGED <<result, machine_info, serde_idle_vars>>

\* serde_json::from_str::<MachineInfo>, on the document just written or on
\* a payload from elsewhere
from_str ==
    /\ pc \in {"serialized", "payload_ready"}
    /\ result' = deserialize_MachineInfo(serialized)
    /\ pc' = IF pc = "serialized" THEN "deserialized" ELSE "payload_deserialized"
    /\ UNCHANGED <<machine_info, serialized, serde_idle_vars>>

NextSerde == to_string \/ from_str

SpecSerde == InitSerde /\ [][NextSerde]_vars

---------------------------------------------------------------------------
(* C14.  to_string, then from_str.                                         *)

SameOption(a, b) ==
    /\ a.some = b.some
    /\ a.some => (a.item.type = b.item.type /\ a.item.val = b.item.val)

\* equal on every named field, the nested records' fields and extra included
SameFields(a, b) ==
    /\ DOMAIN a = DOMAIN b
    /\ \A k \in DOMAIN a \ {"extra"} : a[k] = b[k]
    /\ SameOption(a.extra, b.extra)

\* C14: a MachineInfo that was serialized and deserialized again comes back
\* equal to the original on every named field, the nested records' fields
\* and the extra of each of the three levels included.
C14_RoundTrip ==
    pc = "deserialized" =>
        /\ result.kind = "Ok"
        /\ SameFields(result.val.hardware, machine_info.hardware)
        /\ SameFields(result.val.software, machine_info.software)
        /\ SameOption(result.val.extra, machine_info.extra)

---------------------------------------------------------------------------
(* C15.  from_str on a payload with keys that name no field.               *)

\* v is an object that holds each of the fields with a value of its type
HoldsFields(v, strings, bools) ==
    /\ v.type = "object"
    /\ (strings \cup bools) \subseteq DOMAIN v.val
    /\ \A k \in strings : v.val[k].type = "string"
    /\ \A k \in bools : v.val[k].type = "bool"

HoldsObjects(v, keys) ==
    /\ v.type = "object"
    /\ keys \subseteq DOMAIN v.val
    /\ \A k \in keys : v.val[k].type = "object"

\* the document holds every named field of a MachineInfo
IsMachineInfoPayload(doc) ==
    /\ HoldsObjects(doc, {"hardware", "software"})
    /\ HoldsFields(doc.val["hardware"], {"disk_serial_number", "mac_addresses"},
                   {"cpu_is_virtual"})
    /\ HoldsObjects(doc.val["hardware"], {"bios_info", "system_info", "enclosure_info"})
    /\ HoldsFields(doc.val["hardware"].val["bios_info"],
                   DOMAIN BiosInfoDefault \ {"is_virtual_machine"}, {"is_virtual_machine"})
    /\ HoldsFields(doc.val["hardware"].val["system_info"], DOMAIN SystemInfoDefault, {})
    /\ HoldsFields(doc.val["hardware"].val["enclosure_info"], DOMAIN EnclosureInfoDefault, {})
    /\ HoldsFields(doc.val["software"], {"os_release", "uname"}, {})

HasNoExtraKey(doc) ==
    /\ "extra" \notin DOMAIN doc.val
    /\ "extra" \notin DOMAIN doc.val["hardware"].val
    /\ "extra" \notin DOMAIN doc.val["software"].val

\* the objects of the document that hold a key naming no field
UnknownLevels(doc) ==
    LET h == doc.val["hardware"].val
    IN  {l \in Levels :
            CASE l = "top" -> DOMAIN doc.val \ {"hardware", "software", "extra"} # {}
              [] l = "hardware" ->
                    DOMAIN h \ {"cpu_is_virtual", "disk_serial_number", "mac_addresses",
                                "bios_info", "system_info", "enclosure_info", "extra"} # {}
              [] l = "software" ->
                    DOMAIN doc.val["software"].val \ {"os_release", "uname", "extra"} # {}
              [] l = "bios_info" -> DOMAIN h["bios_info"].val \ DOMAIN BiosInfoDefault # {}
              [] l = "system_info" -> DOMAIN h["system_info"].val \ DOMAIN SystemInfoDefault # {}
              [] l = "enclosure_info" ->
                    DOMAIN h["enclosure_info"].val \ DOMAIN EnclosureInfoDefault # {}}

\* record r holds exactly the fields, with the values object v gives them
KeepsFields(r, v, strings, bools) ==
    /\ \A k \in strings : r[k] = v.val[k].val
    /\ \A k \in bools : r[k] = v.val[k].val[1]

\* C15: a payload that holds every named field of a MachineInfo, keys that
\* name no field at any of its levels, and no `extra` key deserializes to
\* Ok, with every named field at the payload's value and extra None at the
\* top level, in hardware and in software.
C15_UnknownFieldsIgnored ==
    (pc = "payload_deserialized" /\ IsMachineInfoPayload(serialized)
     /\ HasNoExtraKey(serialized)) =>
        /\ result.kind = "Ok"
        /\ LET h == result.val.hardware
               hdoc == serialized.val["hardware"]
           IN  /\ KeepsFields(h, hdoc, {"disk_serial_number", "mac_addresses"},
                              {"cpu_is_virtual"})
               /\ KeepsFields(h.bios_info, hdoc.val["bios_info"],
                              DOMAIN BiosInfoDefault \ {"is_virtual_machine"},
                              {"is_virtual_machine"})
               /\ KeepsFields(h.system_info, hdoc.val["system_info"],
                              DOMAIN SystemInfoDefault, {})
               /\ KeepsFields(h.enclosure_info, hdoc.val["enclosure_info"],
                              DOMAIN EnclosureInfoDefault, {})
               /\ ~h.extra.some
        /\ KeepsFields(result.val.software, serialized.val["software"],
                       {"os_release", "uname"}, {})
        /\ ~result.val.software.extra.some
        /\ ~result.val.extra.some

\* a payload with a key naming no field in each of its six objects and no
\* `extra` key has been deserialized
C15_Witness ==
    /\ pc = "payload_deserialized"
    /\ IsMachineInfoPayload(serialized) /\ HasNoExtraKey(serialized)
    /\ UnknownLevels(serialized) = Levels
    /\ result.kind = "Ok"
    /\ result.val.hardware.cpu_is_virtual = TRUE
    /\ result.val.hardware.bios_info.vendor = TEXT_Vendor
    /\ ~result.val.extra.some
    /\ ~result.val.hardware.extra.some
    /\ ~result.val.software.extra.some

=============================================================================
